---- MODULE Spec2Model ----
(***************************************************************************)
(* Radix tree (compressed prefix tree) of andrewwang247/radix-tree.        *)
(*                                                                         *)
(* The heap of Node objects is a function from node identities to records  *)
(* {is_end, parent, children}; children is the std::map from edge label to *)
(* the owned child.  Keys are sequences of bytes.  Every operation of the  *)
(* container is an operator over a heap, translated from src/trie.cpp and  *)
(* the Node part of src/iterator.cpp, and one action applies it.           *)
(***************************************************************************)
EXTENDS Integers, Sequences, FiniteSets, TLC

\* ------------------------------------------------------------------ bounds
MaxLen == 2        \* longest key or prefix handed to an operation
MaxNodes == 4      \* most nodes below the root at once

\* ------------------------------------------------------- pointers, strings
Null == -1         \* nullptr
Fault == -2        \* a failed assert, or undefined behaviour: no result
Throw == -3        \* std::runtime_error leaves the call
RootId == 0        \* the node owned by Trie::root

Bytes == {1, 2}    \* the bytes keys are made of

RECURSIVE StringsUpTo(_)
StringsUpTo(n) ==
  IF n = 0 THEN {<<>>}
  ELSE LET S == StringsUpTo(n - 1)
       IN  S \cup {Append(s, b) : s \in {t \in S : Len(t) = n - 1}, b \in Bytes}

Strings == StringsUpTo(MaxLen)

\* std::string operator< : lexicographic order on bytes
RECURSIVE LexLess(_, _)
LexLess(a, b) ==
  IF b = <<>> THEN FALSE
  ELSE IF a = <<>> THEN TRUE
  ELSE IF a[1] < b[1] THEN TRUE
  ELSE IF a[1] > b[1] THEN FALSE
  ELSE LexLess(Tail(a), Tail(b))

\* util::is_prefix
is_prefix(prf, word) ==
  IF prf = <<>> THEN TRUE
  ELSE IF Len(prf) > Len(word) THEN FALSE
  ELSE \A i \in 1..Len(prf) : prf[i] = word[i]

\* a mismatch that takes the whole key for the common part
mismatch_whole_key(a, b) == Len(a)

\* std::mismatch(key.begin(), key.end(), child_str.begin()): length of the
\* common prefix
RECURSIVE mismatch(_, _)
mismatch(a, b) ==
  IF a = <<>> \/ b = <<>> THEN 0
  ELSE IF a[1] # b[1] THEN 0
  ELSE 1 + mismatch(Tail(a), Tail(b))

Drop(s, n) == SubSeq(s, n + 1, Len(s))
Take(s, n) == SubSeq(s, 1, n)

\* ------------------------------------------------------ std::map children
EmptyMap == [l \in {} |-> Null]

\* children.begin()->first and children.rbegin()->first
MinLabel(S) == CHOOSE l \in S : \A m \in S : m = l \/ LexLess(l, m)
MaxLabel(S) == CHOOSE l \in S : \A m \in S : m = l \/ LexLess(m, l)

\* std::map::emplace keeps the old entry when the key is present
Emplace(ch, l, id) ==
  IF l \in DOMAIN ch THEN ch
  ELSE [x \in DOMAIN ch \cup {l} |-> IF x = l THEN id ELSE ch[x]]

\* std::map::erase of one entry
EraseKey(ch, l) == [x \in DOMAIN ch \ {l} |-> ch[x]]

\* ------------------------------------------------------------------- heap
\* Node::Node(is_end, parent): no children
Node(is_end, parent) ==
  [is_end |-> is_end, parent |-> parent, children |-> EmptyMap]

\* The address make_unique<Node> returns is any address not in use.  The
\* model takes the one numbered after the place of the new node in the tree
\* (the string it stands for, read as a number), or the lowest free one when
\* that is taken, so that two heaps holding the same tree are the same state.
RECURSIVE AddressOf(_)
AddressOf(str) ==
  IF str = <<>> THEN 0
  ELSE AddressOf(Take(str, Len(str) - 1)) * 3 + str[Len(str)]

LowestFree(h) ==
  CHOOSE n \in 0..Cardinality(DOMAIN h) :
    n \notin DOMAIN h /\ \A m \in 0..(n - 1) : m \in DOMAIN h

NewId(h, str) ==
  IF AddressOf(str) \notin DOMAIN h THEN AddressOf(str) ELSE LowestFree(h)

Alloc(h, id, nd) == [x \in DOMAIN h \cup {id} |-> IF x = id THEN nd ELSE h[x]]

Kids(h, n) == {h[n].children[l] : l \in DOMAIN h[n].children}

\* the nodes a unique_ptr<Node> owns, itself included
RECURSIVE Subtree(_, _)
Subtree(h, n) ==
  IF n \notin DOMAIN h THEN {}
  ELSE {n} \cup UNION {Subtree(h, c) : c \in Kids(h, n)}

\* ~unique_ptr<Node>: the whole subtree is released
Free(h, S) == [x \in DOMAIN h \ S |-> h[x]]

\* ---------------------------------------------------------- search kernel
\* approximate_match that does not go down an edge whose label is all that
\* is left of the key
RECURSIVE approximate_match_proper_only(_, _, _)
approximate_match_proper_only(h, this, key) ==
  LET hits == {l \in DOMAIN h[this].children : is_prefix(l, key) /\ l # key}
  IN  IF key = <<>> \/ hits = {} THEN [node |-> this, key |-> key]
      ELSE approximate_match_proper_only(h, h[this].children[MinLabel(hits)],
                                         Drop(key, Len(MinLabel(hits))))

\* approximate_match that goes down one edge and stops there
approximate_match_one_edge(h, this, key) ==
  LET hits == {l \in DOMAIN h[this].children : is_prefix(l, key)}
  IN  IF key = <<>> \/ hits = {} THEN [node |-> this, key |-> key]
      ELSE [node |-> h[this].children[MinLabel(hits)],
            key |-> Drop(key, Len(MinLabel(hits)))]

\* Node::approximate_match: the deepest node reached and what is left of key
RECURSIVE approximate_match(_, _, _)
approximate_match(h, this, key) ==
  IF key = <<>> THEN [node |-> this, key |-> key]
  ELSE LET hits == {l \in DOMAIN h[this].children : is_prefix(l, key)}
       IN  IF hits = {} THEN [node |-> this, key |-> key]
           ELSE LET l == MinLabel(hits)
                IN  approximate_match(h, h[this].children[l], Drop(key, Len(l)))

\* Node::key_count
RECURSIVE key_count(_, _)
RECURSIVE key_count_of(_, _, _)
key_count_of(h, this, L) ==
  IF L = {} THEN 0
  ELSE LET l == MinLabel(L)
       IN  key_count(h, h[this].children[l]) + key_count_of(h, this, L \ {l})

key_count(h, this) ==
  (IF h[this].is_end THEN 1 ELSE 0)
    + key_count_of(h, this, DOMAIN h[this].children)

\* prefix_match without its second half: a prefix that ends inside an edge
\* label roots nothing
prefix_match_whole_labels(h, this, prf0) ==
  LET am == approximate_match(h, this, prf0)
  IN  IF am.key = <<>> THEN am ELSE [node |-> Null, key |-> am.key]

\* prefix_match that takes the child whose label starts with the byte the
\* rest of prf starts with, whatever follows that byte
prefix_match_first_byte(h, this, prf0) ==
  LET am == approximate_match(h, this, prf0)
      hits == {l \in DOMAIN h[am.node].children : l[1] = am.key[1]}
  IN  IF am.key = <<>> THEN am
      ELSE IF hits # {}
        THEN [node |-> h[am.node].children[MinLabel(hits)], key |-> <<>>]
        ELSE [node |-> Null, key |-> am.key]

\* Node::prefix_match: the node rooting prf (or Null) and what is left of prf
prefix_match(h, this, prf0) ==
  LET am == approximate_match(h, this, prf0)
      app_ptr == am.node
      prf == am.key
      hits == {l \in DOMAIN h[app_ptr].children : is_prefix(prf, l)}
  IN  IF prf = <<>> THEN [node |-> app_ptr, key |-> prf]
      ELSE IF hits # {}
        THEN [node |-> h[app_ptr].children[MinLabel(hits)], key |-> <<>>]
        ELSE [node |-> Null, key |-> prf]

\* exact_match that forgets to ask whether the whole word was read
exact_match_ignores_rest(h, this, word) == approximate_match(h, this, word).node

\* Node::exact_match
exact_match(h, this, word) ==
  LET am == approximate_match(h, this, word)
  IN  IF am.key = <<>> THEN am.node ELSE Null

\* Node::find_child: the label under which par holds ptr, <<>> for end()
find_child(h, par, ptr) ==
  LET hits == {l \in DOMAIN h[par].children : h[par].children[l] = ptr}
  IN  IF hits = {} THEN <<>> ELSE MinLabel(hits)

\* the entries of a std::map in the order its iterator visits them
RECURSIVE in_order(_)
in_order(L) ==
  IF L = {} THEN <<>>
  ELSE LET l == MinLabel(L) IN <<l>> \o in_order(L \ {l})

\* Node::equals, this in heap a and other in heap b
RECURSIVE equals(_, _, _, _)
equals(a, this, b, other) ==
  LET it_1 == in_order(DOMAIN a[this].children)
      it_2 == in_order(DOMAIN b[other].children)
  IN  IF a[this].is_end # b[other].is_end THEN FALSE
      ELSE IF it_1 = <<>> /\ it_2 = <<>> THEN TRUE
      ELSE IF Len(it_1) # Len(it_2) THEN FALSE
      ELSE \A i \in 1..Len(it_1) :
             /\ it_1[i] = it_2[i]
             /\ equals(a, a[this].children[it_1[i]],
                       b, b[other].children[it_2[i]])

\* ------------------------------------------------------------------ state
VARIABLES
  nodes,      \* the heap: every live Node, RootId the root of the Trie
  ndebug,     \* the build: TRUE for release (-DNDEBUG), FALSE for debug
  word_set    \* the std::set<string> the harness fills alongside the Trie

vars == <<nodes, ndebug, word_set>>

\* ------------------------------------------------------------- navigation
\* Node::first_key.  In the loop a node that is neither an end nor a parent
\* fails the assert (debug) or dereferences begin() of an empty map (release)
RECURSIVE first_key_loop(_, _)
first_key_loop(h, rt) ==
  IF DOMAIN h[rt].children = {} THEN Fault
  ELSE LET c == h[rt].children[MinLabel(DOMAIN h[rt].children)]
       IN  IF h[c].is_end THEN c ELSE first_key_loop(h, c)

\* first_key that stops at the first child, whether or not it is an end
first_key_first_child(h, this) ==
  IF DOMAIN h[this].children = {} THEN Null
  ELSE h[this].children[MinLabel(DOMAIN h[this].children)]

first_key(h, this) ==
  IF DOMAIN h[this].children = {} THEN Null ELSE first_key_loop(h, this)

\* the while loop of Node::next_node: up while ptr is the right-most child
RECURSIVE next_node_climb(_, _)
next_node_climb(h, ptr) ==
  LET par == h[ptr].parent
  IN  IF par # Null /\ DOMAIN h[par].children # {}
         /\ h[par].children[MaxLabel(DOMAIN h[par].children)] = ptr
      THEN next_node_climb(h, par)
      ELSE ptr

\* Node::next_node.  assert(!par->children.empty()) reads through par before
\* the loop tests it: on the root (par null) the debug build dereferences
\* null, the release build has no assert and goes on.
next_node(h, this) ==
  IF h[this].parent = Null /\ ~ndebug THEN Fault
  ELSE
    LET ptr == next_node_climb(h, this)
        par == h[ptr].parent
    IN  IF par = Null THEN Null
        ELSE
          LET at == find_child(h, par, ptr)
              after == {l \in DOMAIN h[par].children : LexLess(at, l)}
          IN  IF at = <<>> \/ after = {} THEN Fault
              ELSE
                LET rn == h[par].children[MinLabel(after)]
                IN  IF h[rn].is_end THEN rn
                    ELSE IF DOMAIN h[rn].children = {} /\ ~ndebug THEN Fault
                    ELSE first_key(h, rn)

\* Node::underlying_string: the labels from the root down to this
RECURSIVE underlying_string(_, _)
underlying_string(h, this) ==
  LET par == h[this].parent
  IN  IF par = Null THEN <<>>
      ELSE underlying_string(h, par) \o find_child(h, par, this)

\* ------------------------------------------------------------ Trie queries
\* Trie::empty
empty(h, prefix) ==
  LET prf_rt == prefix_match(h, RootId, prefix).node
  IN  IF prf_rt = Null THEN TRUE
      ELSE ~h[prf_rt].is_end /\ DOMAIN h[prf_rt].children = {}

\* Trie::size
size(h, prefix) ==
  LET prf_rt == prefix_match(h, RootId, prefix).node
  IN  IF prf_rt = Null THEN 0 ELSE key_count(h, prf_rt)

\* find without the case of the empty key
find_exact_only(h, key) == exact_match(h, RootId, key)

\* trie::find (the empty key is answered from the root's is_end)
find(h, key) ==
  IF key = <<>> THEN (IF h[RootId].is_end THEN RootId ELSE Null)
  ELSE exact_match(h, RootId, key)

\* find_prefix that always goes below the prefix root, also when the root
\* of the prefix is itself a key
find_prefix_below(h, prefix) ==
  LET prf_rt == prefix_match(h, RootId, prefix).node
  IN  IF prf_rt = Null THEN Null ELSE first_key(h, prf_rt)

\* Trie::find_prefix
find_prefix(h, prefix) ==
  LET pm == prefix_match(h, RootId, prefix)
      prf_rt == pm.node
  IN  IF prf_rt = Null THEN Null
      ELSE IF pm.key = <<>> /\ h[prf_rt].is_end THEN prf_rt
      ELSE first_key(h, prf_rt)

\* Trie::begin() and Trie::end()
begin(h) == IF h[RootId].is_end THEN RootId ELSE first_key(h, RootId)
end == Null

\* Trie::begin(prefix)
begin_prefix(h, prefix) == find_prefix(h, prefix)

\* Trie::end(prefix)
end_prefix(h, prefix0) ==
  LET am == approximate_match(h, RootId, prefix0)
      app_ptr == am.node
      prefix == am.key
      labels == DOMAIN h[app_ptr].children
      greater == {l \in labels : l[1] > prefix[1]}
  IN  IF prefix = <<>> \/ labels = {} \/ LexLess(MaxLabel(labels), prefix)
        THEN next_node(h, app_ptr)
      ELSE IF greater # {}
        THEN LET c == h[app_ptr].children[MinLabel(greater)]
             IN  IF h[c].is_end THEN c ELSE first_key(h, c)
      ELSE Throw

\* Trie::iterator::operator++
increment(h, ptr) ==
  IF DOMAIN h[ptr].children = {} THEN next_node(h, ptr) ELSE first_key(h, ptr)

\* Trie::iterator::operator*
deref(h, ptr) == underlying_string(h, ptr)

\* for (it = first; it != last; ++it): the nodes visited.  An iterator that
\* is null, or no iterator at all, cannot be dereferenced or advanced: the
\* walk then ends in Fault.
RECURSIVE range(_, _, _, _)
range(h, first, last, fuel) ==
  IF first = last THEN <<>>
  ELSE IF first \notin DOMAIN h \/ fuel = 0 THEN <<Fault>>
  ELSE <<first>> \o range(h, increment(h, first), last, fuel - 1)

\* ----------------------------------------------------------- Trie mutators
SetChildren(h, n, ch) == [h EXCEPT ![n].children = ch]

\* Trie::insert, the two places that hang a new end node labelled key under
\* loc (loc has no children; no child shares the first letter)
insert_under(h, loc, key) ==
  LET child == NewId(h, underlying_string(h, loc) \o key)
      h1 == Alloc(h, child, Node(TRUE, loc))
      h2 == SetChildren(h1, loc, Emplace(h1[loc].children, key, child))
  IN  [h |-> h2, ret |-> h2[loc].children[key]]

\* a junction that is never marked as the end of a key
junction_never_end(post_key) == FALSE

\* Trie::insert, is_end of the junction: the key ends at the junction
junction_is_end(post_key) == post_key = <<>>

\* no split: the key is hung under loc next to the child it shares a first
\* letter with
insert_without_split(h, loc, key, child_str) == insert_under(h, loc, key)

\* Trie::insert, the split of the child labelled child_str at a junction
insert_split(h, loc, key, child_str) ==
  LET n == mismatch(key, child_str)
      common == Take(key, n)
      post_key == Drop(key, n)
      post_child == Drop(child_str, n)
      moved == h[loc].children[child_str]
      j == NewId(h, underlying_string(h, loc) \o common)
      h1 == Alloc(h, j, Node(junction_is_end(post_key), loc))
      h2 == SetChildren(h1, loc, Emplace(h1[loc].children, common, j))
      junction == h2[loc].children[common]
      h3 == SetChildren(h2, junction,
                        Emplace(h2[junction].children, post_child, moved))
      h4 == [h3 EXCEPT ![h3[junction].children[post_child]].parent = junction]
      h5 == SetChildren(h4, loc, EraseKey(h4[loc].children, child_str))
      key_node == NewId(h5, underlying_string(h5, junction) \o post_key)
      h6 == Alloc(h5, key_node, Node(TRUE, junction))
      h7 == SetChildren(h6, junction,
                        Emplace(h6[junction].children, post_key, key_node))
  IN  IF post_key # <<>>
        THEN [h |-> h7, ret |-> h7[junction].children[post_key]]
        ELSE [h |-> h5, ret |-> junction]

\* insert that flips is_end of the node the key ends at, where the code
\* sets it
insert_flips_end(h, key0) ==
  LET am == approximate_match(h, RootId, key0)
      loc == am.node
      key == am.key
      shared == {l \in DOMAIN h[loc].children : l # <<>> /\ l[1] = key[1]}
  IN  IF key = <<>>
        THEN [h |-> [h EXCEPT ![loc].is_end = ~h[loc].is_end], ret |-> loc]
      ELSE IF DOMAIN h[loc].children = {} THEN insert_under(h, loc, key)
      ELSE IF shared # {} THEN insert_split(h, loc, key, MinLabel(shared))
      ELSE insert_under(h, loc, key)

\* Trie::insert: the heap afterwards and the node the iterator refers to
insert(h, key0) ==
  LET am == approximate_match(h, RootId, key0)
      loc == am.node
      key == am.key
      shared == {l \in DOMAIN h[loc].children : l # <<>> /\ l[1] = key[1]}
  IN  IF key = <<>> THEN [h |-> [h EXCEPT ![loc].is_end = TRUE], ret |-> loc]
      ELSE IF DOMAIN h[loc].children = {} THEN insert_under(h, loc, key)
      ELSE IF shared # {} THEN insert_split(h, loc, key, MinLabel(shared))
      ELSE insert_under(h, loc, key)

\* Trie::erase, match is a leaf: drop it, then join its parent's only child
\* to the grand parent when the parent is left a non-end with one child
erase_leaf(h, match) ==
  LET par == h[match].parent
      match_iter == find_child(h, par, match)
      h1 == Free(SetChildren(h, par, EraseKey(h[par].children, match_iter)),
                 Subtree(h, match))
      grand_par == h1[par].parent
      par_iter == find_child(h1, grand_par, par)
      only == MinLabel(DOMAIN h1[par].children)
      child == h1[par].children[only]
      mod_key == par_iter \o only
      h2 == SetChildren(h1, grand_par,
                        Emplace(h1[grand_par].children, mod_key, child))
      h3 == [h2 EXCEPT ![h2[grand_par].children[mod_key]].parent = grand_par]
      h4 == Free(SetChildren(h3, grand_par,
                             EraseKey(h3[grand_par].children, par_iter)),
                 {par})
  IN  IF Cardinality(DOMAIN h1[par].children) = 1 /\ par # RootId
         /\ ~h1[par].is_end
      THEN h4
      ELSE h1

\* a join that forgets the label above match
joined_key_child_only(match_str, child_str) == child_str

\* Trie::erase, the label of the only child once joined to match's parent
joined_key(match_str, child_str) == match_str \o child_str

\* no join: match stays where it is, between its parent and its only child
erase_join_skipped(h, match) == h

\* a join that moves the child and leaves its parent link on match
erase_join_stale_parent(h, match) ==
  LET only_child == MinLabel(DOMAIN h[match].children)
      child == h[match].children[only_child]
      par == h[match].parent
      match_iter == find_child(h, par, match)
      joined == match_iter \o only_child
      h2 == SetChildren(h, par, Emplace(h[par].children, joined, child))
  IN  Free(SetChildren(h2, par, EraseKey(h2[par].children, match_iter)),
           {match})

\* Trie::erase, match has one child: join the child to match's parent
erase_join(h, match) ==
  LET only_child == MinLabel(DOMAIN h[match].children)
      child == h[match].children[only_child]
      par == h[match].parent
      match_iter == find_child(h, par, match)
      joined == joined_key(match_iter, only_child)
      h1 == [h EXCEPT ![child].parent = par]
      h2 == SetChildren(h1, par, Emplace(h1[par].children, joined, child))
      h3 == Free(SetChildren(h2, par, EraseKey(h2[par].children, match_iter)),
                 {match})
  IN  h3

\* erase that joins the first child of match to match's parent whenever
\* match has children, also when it has two or more
erase_joins_branch(h, key) ==
  LET match == exact_match(h, RootId, key)
      h1 == [h EXCEPT ![match].is_end = FALSE]
  IN  IF match = Null THEN h
      ELSE IF match = RootId THEN h1
      ELSE IF DOMAIN h1[match].children = {} THEN erase_leaf(h1, match)
      ELSE erase_join(h1, match)

\* Trie::erase
erase(h, key) ==
  LET match == exact_match(h, RootId, key)
      h1 == [h EXCEPT ![match].is_end = FALSE]
  IN  IF match = Null THEN h
      ELSE IF match = RootId THEN h1
      ELSE IF DOMAIN h1[match].children = {} THEN erase_leaf(h1, match)
      ELSE IF Cardinality(DOMAIN h1[match].children) = 1
        THEN erase_join(h1, match)
      ELSE h1

\* Trie::clear
clear(h) ==
  [Free(h, Subtree(h, RootId) \ {RootId}) EXCEPT
     ![RootId].children = EmptyMap, ![RootId].is_end = FALSE]

\* erase_prefix that looks for the node with exact_match: a prefix that
\* ends inside an edge label erases nothing
erase_prefix_at_node(h, prefix) ==
  LET prf_ptr == exact_match(h, RootId, prefix)
      par == h[prf_ptr].parent
  IN  IF prf_ptr = Null THEN h
      ELSE IF prf_ptr = RootId THEN clear(h)
      ELSE Free(SetChildren(h, par,
                            EraseKey(h[par].children, find_child(h, par, prf_ptr))),
                Subtree(h, prf_ptr))

\* Trie::erase_prefix
erase_prefix(h, prefix) ==
  LET prf_ptr == prefix_match(h, RootId, prefix).node
      par == h[prf_ptr].parent
  IN  IF prf_ptr = Null THEN h
      ELSE IF prf_ptr = RootId THEN clear(h)
      ELSE Free(SetChildren(h, par,
                            EraseKey(h[par].children, find_child(h, par, prf_ptr))),
                Subtree(h, prf_ptr))

\* Trie::Trie()
EmptyTrie == [n \in {RootId} |-> Node(FALSE, Null)]

\* Trie::Trie(initializer_list<string>): insert the keys of the list in turn
RECURSIVE Trie(_)
Trie(key_list) ==
  IF key_list = <<>> THEN EmptyTrie
  ELSE insert(Trie(Take(key_list, Len(key_list) - 1)),
              key_list[Len(key_list)]).h

\* operator==(const Trie&, const Trie&)
trie_equal(lhs, rhs) == equals(lhs, RootId, rhs, RootId)

\* ---------------------------------------------------------------- actions
\* Trie::Trie(): a root that is no end, has no parent and no children
Init ==
  /\ nodes = [n \in {RootId} |-> Node(FALSE, Null)]
  /\ ndebug \in BOOLEAN
  /\ word_set = {}

has_prefix(prefix, S) == {w \in S : is_prefix(prefix, w)}

Insert(key) ==
  /\ Cardinality(DOMAIN insert(nodes, key).h) <= MaxNodes + 1
  /\ nodes' = insert(nodes, key).h
  /\ word_set' = word_set \cup {key}
  /\ UNCHANGED ndebug

Erase(key) ==
  /\ nodes' = erase(nodes, key)
  /\ word_set' = word_set \ {key}
  /\ UNCHANGED ndebug

ErasePrefix(prefix) ==
  /\ nodes' = erase_prefix(nodes, prefix)
  /\ word_set' = word_set \ has_prefix(prefix, word_set)
  /\ UNCHANGED ndebug

Clear ==
  /\ nodes' = clear(nodes)
  /\ word_set' = {}
  /\ UNCHANGED ndebug

Next ==
  \/ \E key \in Strings : Insert(key)
  \/ \E key \in Strings : Erase(key)
  \/ \E prefix \in Strings : ErasePrefix(prefix)
  \/ Clear

Spec == Init /\ [][Next]_vars

\* the same tries, for the claims about what one insert or one erase does
SpecOneOperation == Init /\ [][Next]_vars

\* the same tries, for the claims about an operation done twice
SpecRepeated == Init /\ [][Next]_vars

\* the tries of the claims about insert and erase alone
NextInsertErase ==
  \/ \E key \in Strings : Insert(key)
  \/ \E key \in Strings : Erase(key)

SpecInsertErase == Init /\ [][NextInsertErase]_vars

\* the tries filled by insert alone
NextInsert == \E key \in Strings : Insert(key)

SpecInsert == Init /\ [][NextInsert]_vars

\* ------------------------------------------------- what the claims speak of
\* the keys a trie stores: the labels from the root down to each end node
RECURSIVE keys_under(_, _, _)
keys_under(h, n, str) ==
  (IF h[n].is_end THEN {str} ELSE {})
    \cup UNION {keys_under(h, h[n].children[l], str \o l) :
                  l \in DOMAIN h[n].children}

stored_keys(h) == keys_under(h, RootId, <<>>)

\* a set of strings in increasing order
RECURSIVE sorted(_)
sorted(S) ==
  IF S = {} THEN <<>>
  ELSE LET m == MinLabel(S) IN <<m>> \o sorted(S \ {m})

\* more steps than any walk over the heap takes
Fuel(h) == Cardinality(DOMAIN h) + 1

\* the keys read off a walk; a step that is no node reads as <<Fault>>
keys_of(h, walk) ==
  [i \in 1..Len(walk) |->
     IF walk[i] \in DOMAIN h THEN deref(h, walk[i]) ELSE <<Fault>>]

forward(h) == range(h, begin(h), end, Fuel(h))
forward_prefix(h, p) == range(h, begin_prefix(h, p), end_prefix(h, p), Fuel(h))

\* C1: after any inserts and erases, walking from begin() with ++ up to
\* end() visits exactly the keys inserted and not erased since, each once,
\* in strictly increasing order, and as many of them as size() says.
C1_ForwardIteration ==
  /\ keys_of(nodes, forward(nodes)) = sorted(word_set)
  /\ Len(forward(nodes)) = size(nodes, <<>>)

\* C2: find(k) is an iterator to k, not end(), when k is stored, and is
\* end() when k is not stored, also when k is what a branch node stands for.
C2_Find ==
  \A k \in Strings :
    LET it == find(nodes, k)
    IN  IF k \in word_set
          THEN it \in DOMAIN nodes /\ deref(nodes, it) = k
          ELSE it = end

\* C3: after any inserts, erases, prefix erases and clears, size(p) is the
\* number of stored keys that begin with p, for every prefix p.
C3_SizeCountsPrefix ==
  \A p \in Strings :
    size(nodes, p) = Cardinality(has_prefix(p, word_set))

\* a prefix that ends inside an edge label is counted, in a trie that was
\* erased from and holds as many nodes as the bound allows
C3_Witness ==
  /\ Cardinality(DOMAIN nodes) = MaxNodes + 1
  /\ \E p \in Strings :
       /\ approximate_match(nodes, RootId, p).key # <<>>
       /\ size(nodes, p) >= 1
  /\ \E p \in Strings : size(nodes, p) >= 2 /\ size(nodes, p) < size(nodes, <<>>)

\* C4: insert(k) returns an iterator that is not end() and reads k; after
\* it k is stored, no other key came or went, and size() grew by one when k
\* was new and not at all when k was stored already.
C4_Insert ==
  LET before == stored_keys(nodes)
      count == size(nodes, <<>>)
  IN  \A k \in Strings :
        LET r == insert(nodes, k)
            after == r.h
            it == r.ret
        IN  /\ it # end
            /\ it \in DOMAIN after
            /\ deref(after, it) = k
            /\ stored_keys(after) = before \cup {k}
            /\ size(after, <<>>) = count + (IF k \in before THEN 0 ELSE 1)

\* an insert that split an edge at a junction, and the junction is the key
C4_Witness ==
  \E k \in word_set :
    LET n == find(nodes, k)
    IN  /\ n # RootId
        /\ nodes[n].is_end
        /\ Cardinality(DOMAIN nodes[n].children) = 1
        /\ insert(nodes, k).ret = n
        /\ \E j \in Strings : j \notin word_set
             /\ stored_keys(insert(nodes, j).h) = word_set \cup {j}

\* C5: erase(k) removes k and nothing else, adds nothing, and leaves the
\* stored keys as they were when k was not stored.
C5_Erase ==
  LET before == stored_keys(nodes)
  IN  \A k \in Strings : stored_keys(erase(nodes, k)) = before \ {k}

\* an erase that joined the parent's last child to the grand parent
C5_Witness ==
  \E k \in word_set :
    /\ Cardinality(DOMAIN erase(nodes, k)) = Cardinality(DOMAIN nodes) - 2
    /\ stored_keys(erase(nodes, k)) = word_set \ {k}

\* C6: erase_prefix(p) removes the keys that begin with p and no other:
\* after it no stored key begins with p, find_prefix(p) is end(), size(p) is
\* 0, and every other key that was stored still is.
C6_ErasePrefix ==
  LET before == stored_keys(nodes)
  IN  \A p \in Strings :
        LET after == erase_prefix(nodes, p)
        IN  /\ stored_keys(after) = before \ has_prefix(p, before)
            /\ find_prefix(after, p) = end
            /\ size(after, p) = 0

\* a prefix erase that took some keys, and not all, with p inside a label
C6_Witness ==
  \E p \in Strings :
    LET after == erase_prefix(nodes, p)
    IN  /\ approximate_match(nodes, RootId, p).key # <<>>
        /\ has_prefix(p, word_set) # {}
        /\ stored_keys(after) # {}
        /\ stored_keys(after) # stored_keys(nodes)

\* C7: after any inserts and erases, for a prefix p of some stored key,
\* walking from begin(p) with ++ up to end(p) visits exactly the stored keys
\* that begin with p, in increasing order, as many as size(p) says.
C7_PrefixRange ==
  \A p \in Strings :
    has_prefix(p, word_set) # {} =>
      /\ keys_of(nodes, forward_prefix(nodes, p)) = sorted(has_prefix(p, word_set))
      /\ Len(forward_prefix(nodes, p)) = size(nodes, p)

\* C8: end(p) returns an iterator for every prefix p; it never reaches the
\* branch that throws runtime_error.
C8_EndNeverThrows ==
  \A p \in Strings : end_prefix(nodes, p) # Throw

\* C9: for a prefix p that no stored key begins with, begin(p) and end(p)
\* are both the null iterator.
C9_EmptyRangeIsNull ==
  \A p \in Strings :
    has_prefix(p, word_set) = {} =>
      begin_prefix(nodes, p) = end /\ end_prefix(nodes, p) = end

\* C10: after any inserts, erases, prefix erases and clears, empty(p) is
\* true exactly when size(p) is 0, for every prefix p.
C10_EmptyIffSizeZero ==
  \A p \in Strings : empty(nodes, p) <=> (size(nodes, p) = 0)

\* ------------------------------------------------- the structural invariants
\* invariant 4: every leaf below the root is the end of a key
leaves_are_ends(h) ==
  \A n \in DOMAIN h \ {RootId} : DOMAIN h[n].children = {} => h[n].is_end

\* invariant 5: a node below the root that is no end has two children or more
non_ends_branch(h) ==
  \A n \in DOMAIN h \ {RootId} :
    ~h[n].is_end => Cardinality(DOMAIN h[n].children) >= 2

\* invariants 1 and 3: no empty label, no two sibling labels with one first
\* byte
labels_distinct(h) ==
  \A n \in DOMAIN h :
    /\ <<>> \notin DOMAIN h[n].children
    /\ \A l, m \in DOMAIN h[n].children : l # m => l[1] # m[1]

\* the root has no parent, every child's parent link is the node that owns it
parents_consistent(h) ==
  /\ RootId \in DOMAIN h
  /\ h[RootId].parent = Null
  /\ \A n \in DOMAIN h : \A l \in DOMAIN h[n].children :
       /\ h[n].children[l] \in DOMAIN h
       /\ h[h[n].children[l]].parent = n

\* C11: after every call in any sequence of insert and erase calls on an
\* empty trie the tree is path-compressed: below the root every node that
\* is no end has two children or more, and every leaf is an end.
C11_PathCompressed ==
  non_ends_branch(nodes) /\ leaves_are_ends(nodes)

\* a key sits on a node between its parent and its only child, and its
\* erase joins the two
C11_Witness ==
  /\ word_set # stored_keys(EmptyTrie)
  /\ \E k \in word_set :
       LET n == find(nodes, k)
       IN  /\ n # RootId
           /\ Cardinality(DOMAIN nodes[n].children) = 1
           /\ Cardinality(DOMAIN erase(nodes, k)) = Cardinality(DOMAIN nodes) - 1
           /\ non_ends_branch(erase(nodes, k))

\* C12: after every insert, erase, erase_prefix and clear, every leaf below
\* the root is the end of a key.
C12_LeavesAreEnds == leaves_are_ends(nodes)

\* C13: erase_prefix(p) on a trie that satisfied the invariants leaves every
\* node below the root that is no end with two children or more.
C13_ErasePrefixKeepsBranching ==
  (/\ leaves_are_ends(nodes) /\ non_ends_branch(nodes)
   /\ labels_distinct(nodes) /\ parents_consistent(nodes))
    => \A p \in Strings : non_ends_branch(erase_prefix(nodes, p))

\* C14: after every insert, erase, erase_prefix and clear no edge label is
\* empty and no two children of one node have labels with the same first
\* byte.
C14_LabelsDistinct == labels_distinct(nodes)

\* an edge was split (a junction below the root holds two children), the
\* root holds a label of two bytes next to a sibling, and a key not stored
\* shares its first byte with a label that is no prefix of it
C14_Witness ==
  /\ \E n \in DOMAIN nodes \ {RootId} :
       Cardinality(DOMAIN nodes[n].children) >= 2
  /\ \E l, m \in DOMAIN nodes[RootId].children : l # m /\ Len(l) >= 2
  /\ \E k \in Strings \ (word_set \cup {<<>>}) :
       \E l \in DOMAIN nodes[RootId].children : l[1] = k[1] /\ ~is_prefix(l, k)

\* C15: after every insert, erase, erase_prefix and clear the root has no
\* parent and the parent link of every child is the node that owns it.
C15_ParentLinks == parents_consistent(nodes)

\* a key on a node with one child: its erase hands the child to the parent
\* of the node and re-parents it
C15_Witness ==
  \E n \in DOMAIN nodes \ {RootId} :
    /\ nodes[n].is_end
    /\ Cardinality(DOMAIN nodes[n].children) = 1
    /\ LET child == CHOOSE c \in Kids(nodes, n) : TRUE
           after == erase(nodes, underlying_string(nodes, n))
       IN  /\ n \notin DOMAIN after
           /\ after[child].parent = nodes[n].parent
           /\ parents_consistent(after)

\* ------------------------------------------------------ equality of tries
\* the tree under n as a value: is_end of n and, for each edge label, the
\* tree under that child
RECURSIVE structure(_, _)
structure(h, n) ==
  [is_end |-> h[n].is_end,
   children |-> [l \in DOMAIN h[n].children |->
                   structure(h, h[n].children[l])]]

same_tree(a, b) == structure(a, RootId) = structure(b, RootId)

\* C16: a == b is true exactly when a and b store the same keys, for a any
\* trie reached by insert, erase, erase_prefix and clear and b the trie
\* built from any list of keys.
C16_EqualIffSameKeys ==
  \A K \in SUBSET Strings :
    LET b == Trie(in_order(K))
    IN  /\ trie_equal(nodes, b) <=> (word_set = K)
        /\ trie_equal(b, nodes) <=> (word_set = K)

\* C17: the keys inserted into an empty trie in any order give the tree
\* that inserting them in increasing order gives: same labels, children and
\* end flags at every node, and == says so.
C17_InsertOrder ==
  LET b == Trie(in_order(word_set))
  IN  /\ same_tree(nodes, b)
      /\ trie_equal(nodes, b)
      /\ trie_equal(b, nodes)

\* three keys or more, one of them on a node with children, around a
\* junction that a split made
C17_Witness ==
  /\ Cardinality(word_set) >= 3
  /\ \E n \in DOMAIN nodes \ {RootId} :
       Cardinality(DOMAIN nodes[n].children) >= 2
  /\ \E k \in word_set : DOMAIN nodes[find(nodes, k)].children # {}

\* C18: for a key k not stored, insert(k) then erase(k) gives a trie that
\* compares equal to the one before the insert.
C18_InsertThenErase ==
  \A k \in Strings \ word_set :
    LET after == erase(insert(nodes, k).h, k)
    IN  trie_equal(after, nodes) /\ same_tree(after, nodes)

\* C19: a second insert(k) right after insert(k) changes nothing in the
\* tree and returns the same node; a list with every key twice builds the
\* trie that stores each key once.
C19_InsertIdempotent ==
  /\ \A k \in Strings :
       LET first == insert(nodes, k)
           second == insert(first.h, k)
       IN  /\ DOMAIN second.h = DOMAIN first.h
           /\ same_tree(second.h, first.h)
           /\ second.ret = first.ret
  /\ LET twice == Trie(in_order(word_set) \o in_order(word_set))
     IN  /\ stored_keys(twice) = word_set
         /\ size(twice, <<>>) = Cardinality(word_set)
         /\ same_tree(twice, Trie(in_order(word_set)))

\* a key not stored whose insert splits an edge, and a key not stored that
\* ends on a node already there
C19_Witness ==
  /\ \E k \in Strings \ word_set :
       Cardinality(DOMAIN insert(nodes, k).h) = Cardinality(DOMAIN nodes) + 2
  /\ \E k \in Strings \ word_set :
       /\ ~same_tree(insert(nodes, k).h, nodes)
       /\ DOMAIN insert(nodes, k).h = DOMAIN nodes
  /\ Cardinality(word_set) >= 2

\* C20: erase(k) twice, erase_prefix(p) twice and clear() twice leave the
\* tree that one call leaves.
C20_EraseIdempotent ==
  /\ \A k \in Strings :
       LET first == erase(nodes, k)
       IN  /\ same_tree(erase(first, k), first)
           /\ DOMAIN erase(first, k) = DOMAIN first
  /\ \A p \in Strings :
       LET first == erase_prefix(nodes, p)
       IN  /\ same_tree(erase_prefix(first, p), first)
           /\ DOMAIN erase_prefix(first, p) = DOMAIN first
  /\ LET first == clear(nodes)
     IN  same_tree(clear(first), first) /\ DOMAIN clear(first) = DOMAIN first

\* an erase that joins, an erase that only clears is_end, and a prefix erase
\* that takes some of the keys, all of them changing the tree
C20_Witness ==
  /\ \E k \in word_set :
       Cardinality(DOMAIN erase(nodes, k)) < Cardinality(DOMAIN nodes)
  /\ \E k \in word_set :
       /\ ~same_tree(erase(nodes, k), nodes)
       /\ DOMAIN erase(nodes, k) = DOMAIN nodes
  /\ \E p \in Strings \ {<<>>} :
       /\ ~same_tree(erase_prefix(nodes, p), nodes)
       /\ stored_keys(erase_prefix(nodes, p)) # {}

\* ------------------------------------------- comparison and arithmetic
\* what a call that returns a bool comes to: the value it returns, or no
\* return at all when the call runs into a fault
Returned(v) == [fault |-> FALSE, value |-> v]
Faulted == [fault |-> TRUE, value |-> FALSE]

\* for (const string& key : t): the keys read, <<Fault>> where ++ faults
keys_in_range(t) == keys_of(t, forward(t))

\* std::includes(first1, last1, first2, last2) over two ranges of keys; an
\* iterator is advanced, and so faults, only when the loop comes to it
RECURSIVE includes(_, _, _, _)
includes(range1, range2, first1, first2) ==
  IF first2 > Len(range2) THEN Returned(TRUE)
  ELSE IF range2[first2] = <<Fault>> THEN Faulted
  ELSE IF first1 > Len(range1) THEN Returned(FALSE)
  ELSE IF range1[first1] = <<Fault>> THEN Faulted
  ELSE IF LexLess(range2[first2], range1[first1]) THEN Returned(FALSE)
  ELSE IF ~LexLess(range1[first1], range2[first2])
    THEN includes(range1, range2, first1 + 1, first2 + 1)
  ELSE includes(range1, range2, first1 + 1, first2)

\* operator<(const Trie&, const Trie&)
less(lhs, rhs) ==
  IF size(lhs, <<>>) >= size(rhs, <<>>) THEN Returned(FALSE)
  ELSE includes(keys_in_range(rhs), keys_in_range(lhs), 1, 1)

\* operator!
negated(r) == IF r.fault THEN Faulted ELSE Returned(~r.value)

\* operator>, operator<= and operator>=
greater(lhs, rhs) == less(rhs, lhs)
less_equal(lhs, rhs) == negated(less(rhs, lhs))
greater_equal(lhs, rhs) == negated(less(lhs, rhs))

\* the loop of operator+=: insert the keys of the range from place i on
RECURSIVE insert_range(_, _, _)
insert_range(h, keys, i) ==
  IF i > Len(keys) THEN [fault |-> FALSE, h |-> h]
  ELSE IF keys[i] = <<Fault>> THEN [fault |-> TRUE, h |-> h]
  ELSE insert_range(insert(h, keys[i]).h, keys, i + 1)

\* the loop of operator-=: erase the keys of the range from place i on
RECURSIVE erase_range(_, _, _)
erase_range(h, keys, i) ==
  IF i > Len(keys) THEN [fault |-> FALSE, h |-> h]
  ELSE IF keys[i] = <<Fault>> THEN [fault |-> TRUE, h |-> h]
  ELSE erase_range(erase(h, keys[i]), keys, i + 1)

\* Trie::operator+= and Trie::operator-=: lhs afterwards
plus_assign(lhs, rhs) == insert_range(lhs, keys_in_range(rhs), 1)
minus_assign(lhs, rhs) == erase_range(lhs, keys_in_range(rhs), 1)

\* a proper subset
proper_subset(A, B) == A \subseteq B /\ A # B

\* C21: a < b is true exactly when the keys of a are a proper subset of the
\* keys of b, for a any trie built by inserts and erases and b the trie of
\* any set of keys.
C21_LessIsProperSubset ==
  \A K \in SUBSET Strings :
    LET b == Trie(in_order(K))
    IN  /\ less(nodes, b) = Returned(proper_subset(word_set, K))
        /\ less(b, nodes) = Returned(proper_subset(K, word_set))

\* C22: a <= b is true only if every key of a is a key of b, and a >= b is
\* true only if every key of b is a key of a.
C22_NonStrictIsSubset ==
  \A K \in SUBSET Strings :
    LET b == Trie(in_order(K))
    IN  /\ less_equal(nodes, b) = Returned(TRUE) => word_set \subseteq K
        /\ greater_equal(nodes, b) = Returned(TRUE) => K \subseteq word_set

\* C23: a += b returns, and a then stores the union of the keys of a and
\* b, in the tree that inserting the union into an empty trie gives.
C23_PlusIsUnion ==
  \A K \in SUBSET Strings :
    LET b == Trie(in_order(K))
        sum == plus_assign(nodes, b)
        union == Trie(in_order(word_set \cup K))
    IN  /\ ~sum.fault
        /\ stored_keys(sum.h) = word_set \cup K
        /\ same_tree(sum.h, union)
        /\ trie_equal(sum.h, union)

\* C24: a -= b returns, and a then stores the keys of a that are no keys
\* of b, compares equal to the trie built from that difference, and to a
\* itself when a and b share no key.
C24_MinusIsDifference ==
  \A K \in SUBSET Strings :
    LET b == Trie(in_order(K))
        diff == minus_assign(nodes, b)
    IN  /\ ~diff.fault
        /\ stored_keys(diff.h) = word_set \ K
        /\ trie_equal(diff.h, Trie(in_order(word_set \ K)))
        /\ (word_set \cap K = {} => trie_equal(diff.h, nodes))

\* ------------------------------------------------------- copy and move
\* a cloned child that is left with the null parent it was made with
child_clone_parent_null(copy) == Null

\* Node::clone, child_clone->parent = copy.get()
child_clone_parent(copy) == copy

\* Node::clone: the heap with the copy of the subtree of this in it, and the
\* root of the copy
RECURSIVE clone(_, _)
RECURSIVE clone_children(_, _, _, _)
clone(h, this) ==
  LET copy == LowestFree(h)
  IN  clone_children(Alloc(h, copy, Node(h[this].is_end, Null)), this, copy,
                     in_order(DOMAIN h[this].children))

\* Node::clone, the loop over the children of this from label labels[1] on
clone_children(h, this, copy, labels) ==
  IF labels = <<>> THEN [h |-> h, ret |-> copy]
  ELSE LET r == clone(h, h[this].children[Head(labels)])
           child_clone == r.ret
           h1 == [r.h EXCEPT ![child_clone].parent = child_clone_parent(copy)]
           h2 == SetChildren(h1, copy,
                             Emplace(h1[copy].children, Head(labels), child_clone))
       IN  clone_children(h2, this, copy, Tail(labels))

\* trie::trie(const trie& other): the root of the new trie is the clone of
\* other's root
copy_construct(h, other) == clone(h, other)

\* trie::operator=(trie other) with a copied argument: this takes the root
\* of the copy, the tree it held goes with the argument
copy_assign(h, this, other) ==
  LET r == copy_construct(h, other)
  IN  [h |-> Free(r.h, Subtree(r.h, this)), ret |-> r.ret]

\* the heap as the trie whose root is rt sees it: the operations of a Trie
\* start at its own root, which the operators above find at RootId
as_root(h, rt) ==
  LET at(x) == IF x = RootId THEN rt ELSE IF x = rt THEN RootId ELSE x
  IN  [x \in {at(y) : y \in DOMAIN h} |->
         [is_end |-> h[at(x)].is_end,
          parent |-> IF h[at(x)].parent = Null THEN Null
                     ELSE at(h[at(x)].parent),
          children |-> [l \in DOMAIN h[at(x)].children |->
                          at(h[at(x)].children[l])]]]

\* the tree under rt is whole and its own: the root has no parent, every
\* parent link down from rt is the owner, which is a node of the tree
wired_within(h, rt) ==
  /\ h[rt].parent = Null
  /\ \A n \in Subtree(h, rt) : \A l \in DOMAIN h[n].children :
       /\ h[n].children[l] \in DOMAIN h
       /\ h[h[n].children[l]].parent = n

\* the tree under rt in h2 is the tree under rt in h1, node by node
untouched(h1, h2, rt) ==
  /\ Subtree(h2, rt) = Subtree(h1, rt)
  /\ structure(h2, rt) = structure(h1, rt)
  /\ wired_within(h2, rt)

\* one public operation on the trie at RootId, whichever it is, leaves the
\* tree under rt untouched
operations_leave(h, rt) ==
  /\ \A k \in Strings : untouched(h, insert(h, k).h, rt)
  /\ \A k \in Strings : untouched(h, erase(h, k), rt)
  /\ \A p \in Strings : untouched(h, erase_prefix(h, p), rt)
  /\ untouched(h, clear(h), rt)

\* C25: the copy of a trie built by inserts and erases compares equal to
\* it, its parent links stay inside the copy and its root has no parent, it
\* shares no node with the source, and one more insert, erase, erase_prefix
\* or clear on either trie leaves the tree of the other as it was; the same
\* for a copy assigned over an older copy.
C25_CopyIsDeep ==
  LET made == copy_construct(nodes, RootId)
      h == made.h
      copied == made.ret
      again == copy_assign(h, copied, RootId)
  IN  /\ equals(h, copied, h, RootId) /\ equals(h, RootId, h, copied)
      /\ structure(h, copied) = structure(nodes, RootId)
      /\ wired_within(h, copied)
      /\ Subtree(h, copied) \cap Subtree(h, RootId) = {}
      /\ untouched(nodes, h, RootId)
      /\ operations_leave(h, copied)
      /\ operations_leave(as_root(h, copied), copied)
      /\ equals(again.h, again.ret, again.h, RootId)
      /\ wired_within(again.h, again.ret)
      /\ Subtree(again.h, again.ret) \cap Subtree(again.h, RootId) = {}
      /\ untouched(nodes, again.h, RootId)

\* a trie two levels deep with a key on a node that has children, whose
\* copy an erase changes
C25_Witness ==
  /\ \E n \in DOMAIN nodes \ {RootId} :
       nodes[n].is_end /\ DOMAIN nodes[n].children # {}
  /\ Cardinality(word_set) >= 3
  /\ LET made == copy_construct(nodes, RootId)
         mine == as_root(made.h, made.ret)
     IN  \E k \in word_set :
           /\ structure(erase(mine, k), RootId) # structure(mine, RootId)
           /\ untouched(mine, erase(mine, k), made.ret)

\* trie(trie&&) = default: the unique_ptr root goes to the new trie, the
\* source is left holding nullptr
move_construct(other) == [this |-> other, other |-> Null]

\* trie::operator=(trie other) with a moved argument: the argument takes
\* the root of the source, swap hands it to this
move_assign(this, other) ==
  LET argument == move_construct(other)
  IN  [this |-> argument.this, other |-> argument.other]

\* a trie as Trie::Trie() makes it: a root that is no end, with no children
\* and no parent
valid_empty(h, root) ==
  /\ root # Null
  /\ root \in DOMAIN h
  /\ ~h[root].is_end
  /\ DOMAIN h[root].children = {}
  /\ h[root].parent = Null

\* C26: the source of a move construction or a move assignment is left a
\* valid empty trie: its root is not null, is no end and has no children
\* and no parent.
C26_MovedFromIsEmpty ==
  /\ valid_empty(nodes, move_construct(RootId).other)
  /\ valid_empty(nodes, move_assign(Null, RootId).other)

\* C27: find_prefix(p) and begin(p) are the smallest stored key that begins
\* with p (p itself when p is stored), and end() when no stored key does.
C27_FindPrefixSmallest ==
  \A p \in Strings :
    LET it == find_prefix(nodes, p)
        with_p == has_prefix(p, word_set)
    IN  /\ begin_prefix(nodes, p) = it
        /\ IF with_p = {} THEN it = end
           ELSE /\ it \in DOMAIN nodes
                /\ deref(nodes, it) = MinLabel(with_p)
                /\ (p \in word_set => deref(nodes, it) = p)

\* a stored key with keys below it, and a prefix that ends inside a label
C27_Witness ==
  /\ \E p \in word_set :
       /\ Cardinality(has_prefix(p, word_set)) >= 2
       /\ find_prefix(nodes, p) # RootId
  /\ \E p \in Strings \ word_set :
       /\ has_prefix(p, word_set) # {}
       /\ exact_match(nodes, RootId, p) = Null

C29_EmptyPrefix ==
  /\ begin_prefix(nodes, <<>>) = begin(nodes)
  /\ end_prefix(nodes, <<>>) = end
  /\ size(nodes, <<>>) = Cardinality(word_set)

\* ------------------------------------------------------ reverse iteration
\* node::last_key: the last key under rt, down the right-most children to a
\* leaf; none when rt has no children
RECURSIVE last_key_loop(_, _)
last_key_loop(h, rt) ==
  IF DOMAIN h[rt].children = {} THEN rt
  ELSE last_key_loop(h, h[rt].children[MaxLabel(DOMAIN h[rt].children)])

last_key(h, this) ==
  IF DOMAIN h[this].children = {} THEN Null ELSE last_key_loop(h, this)

\* node::prev_node, the reverse of operator++: the last key under the
\* sibling to the left; with no sibling to the left the parent when it is a
\* key, else whatever comes before the parent; none above the root
RECURSIVE prev_node(_, _)
prev_node(h, this) ==
  LET par == h[this].parent
  IN  IF par = Null THEN Null
      ELSE
        LET at == find_child(h, par, this)
            before == {l \in DOMAIN h[par].children : LexLess(l, at)}
        IN  IF before # {}
              THEN last_key_loop(h, h[par].children[MaxLabel(before)])
            ELSE IF h[par].is_end THEN par
            ELSE prev_node(h, par)

\* operator-- that has no case for the end position
decrement_in_trie_only(h, ptr) ==
  IF ptr # Null THEN prev_node(h, ptr) ELSE Fault

\* iterator::operator--
decrement(h, ptr) ==
  IF ptr # Null THEN prev_node(h, ptr)
  ELSE IF DOMAIN h[RootId].children # {} THEN last_key(h, RootId)
  ELSE IF h[RootId].is_end THEN RootId
  ELSE ptr

\* util::reverse_range, do { --iter; push_back(*iter); } while (iter !=
\* begin): the nodes visited from iter down, iter already moved back
RECURSIVE reverse_walk(_, _, _, _)
reverse_walk(h, first, iter, fuel) ==
  IF iter \notin DOMAIN h \/ fuel = 0 THEN <<Fault>>
  ELSE IF iter = first THEN <<iter>>
  ELSE <<iter>> \o reverse_walk(h, first, decrement(h, iter), fuel - 1)

reverse_range(h, first, last) ==
  reverse_walk(h, first, decrement(h, last), Fuel(h))

\* a sequence read backwards
reversed(seq) == [i \in 1..Len(seq) |-> seq[Len(seq) + 1 - i]]

\* the keys forward iteration visits, in the order it visits them
visited_forward(h) ==
  LET keys == keys_in_range(h)
  IN  IF keys # <<>> /\ keys[Len(keys)] = <<Fault>>
        THEN SubSeq(keys, 1, Len(keys) - 1)
        ELSE keys

C31_SingleKeyIteration ==
  \A k \in Strings :
    word_set = {k} =>
      /\ begin(nodes) \in DOMAIN nodes
      /\ deref(nodes, begin(nodes)) = k
      /\ increment(nodes, begin(nodes)) = end

\* ---------------------------------------------------------- search kernel
\* the keys a search is asked for: one byte longer than any stored key
Queries == StringsUpTo(MaxLen + 1)

\* C32: in every reachable trie and for every query q, approximate_match
\* from the root returns a node L and a rest s with the string of L followed
\* by s equal to q; when s is not empty no child label of L is a prefix of
\* s; and s is empty exactly when some node of the tree stands for q.
C32_ApproximateMatch ==
  \A q \in Queries :
    LET am == approximate_match(nodes, RootId, q)
        L == am.node
        s == am.key
    IN  /\ L \in Subtree(nodes, RootId)
        /\ underlying_string(nodes, L) \o s = q
        /\ s # <<>> =>
             \A l \in DOMAIN nodes[L].children : ~is_prefix(l, s)
        /\ s = <<>> <=>
             \E n \in Subtree(nodes, RootId) : underlying_string(nodes, n) = q

\* a search that stops below the root at a node with children and a rest,
\* and a search that ends with no rest at a branch node that is no key
C32_Witness ==
  /\ \E q \in Queries :
       LET am == approximate_match(nodes, RootId, q)
       IN  /\ am.node # RootId
           /\ am.key # <<>>
           /\ DOMAIN nodes[am.node].children # {}
  /\ \E q \in Queries :
       LET am == approximate_match(nodes, RootId, q)
       IN  /\ am.node # RootId
           /\ am.key = <<>>
           /\ ~nodes[am.node].is_end

\* the keys at the end nodes of the subtree of P, P included
keys_rooted_at(h, P) == keys_under(h, P, underlying_string(h, P))

\* C33 as stated: in a trie built by inserts and erases and for every prefix
\* p, prefix_match from the root returns a node P exactly when some stored
\* key has prefix p, the keys at the end nodes of the subtree of P are then
\* the stored keys with prefix p, and it returns none exactly when no stored
\* key has prefix p.
C33_PrefixMatchIffSomeKey ==
  \A p \in Queries :
    LET P == prefix_match(nodes, RootId, p).node
    IN  /\ P # Null <=> has_prefix(p, word_set) # {}
        /\ P # Null => keys_rooted_at(nodes, P) = has_prefix(p, word_set)

\* C33 amended: prefix_match from the root returns a node P exactly when p
\* is empty or some stored key has prefix p (the empty prefix is rooted at
\* the root, also in an empty trie); whenever it returns P the keys at the
\* end nodes of the subtree of P are the stored keys with prefix p; it
\* returns none exactly when p is not empty and no stored key has prefix p.
C33_PrefixMatch ==
  \A p \in Queries :
    LET P == prefix_match(nodes, RootId, p).node
    IN  /\ P # Null <=> (p = <<>> \/ has_prefix(p, word_set) # {})
        /\ P # Null => keys_rooted_at(nodes, P) = has_prefix(p, word_set)
        /\ P = Null <=> (p # <<>> /\ has_prefix(p, word_set) = {})

\* a prefix that ends inside an edge label, a prefix that roots two keys
\* below the root, and a prefix of no key
C33_Witness ==
  /\ \E p \in Queries :
       LET P == prefix_match(nodes, RootId, p).node
       IN  P # Null /\ underlying_string(nodes, P) # p
  /\ \E p \in Queries :
       LET P == prefix_match(nodes, RootId, p).node
       IN  /\ P \notin {Null, RootId}
           /\ Cardinality(has_prefix(p, word_set)) >= 2
  /\ \E p \in Queries : prefix_match(nodes, RootId, p).node = Null

\* ------------------------------------------------------- the split case
\* Trie::insert, the loop over the children of loc: the labels that share
\* their first letter with what is left of the key (none when the key ends
\* at loc or loc has no children)
split_labels(h, key0) ==
  LET am == approximate_match(h, RootId, key0)
  IN  IF am.key = <<>> \/ DOMAIN h[am.node].children = {} THEN {}
      ELSE {l \in DOMAIN h[am.node].children : l # <<>> /\ l[1] = am.key[1]}

\* C34: in every reachable state and for every key, when insert splits a
\* child of L (its label shares the first byte with the rest S of the key),
\* what is left of the child's label after the longest common prefix is not
\* empty: assert(!post_child.empty()) holds, and the junction is hung under
\* L by a non-empty proper prefix of the old label with the old child below
\* it under the remainder.
C34_SplitRemainder ==
  \A k \in Strings :
    split_labels(nodes, k) # {} =>
      LET am == approximate_match(nodes, RootId, k)
          loc == am.node
          child_str == MinLabel(split_labels(nodes, k))
          n == mismatch(am.key, child_str)
          common == Take(am.key, n)
          post_child == Drop(child_str, n)
          moved == nodes[loc].children[child_str]
          after == insert(nodes, k).h
          junction == after[moved].parent
      IN  /\ post_child # <<>>
          /\ common # <<>>
          /\ is_prefix(common, child_str)
          /\ common # child_str
          /\ junction \notin DOMAIN nodes
          /\ after[junction].parent = loc
          /\ find_child(after, loc, junction) = common
          /\ find_child(after, junction, moved) = post_child

\* a state where one key splits a child and ends at the junction and
\* another key splits a child and goes on below the junction
C34_Witness ==
  /\ \E k \in Strings :
       LET r == insert(nodes, k)
       IN  /\ split_labels(nodes, k) # {}
           /\ DOMAIN r.h[r.ret].children # {}
  /\ \E k \in Strings :
       LET r == insert(nodes, k)
       IN  /\ split_labels(nodes, k) # {}
           /\ DOMAIN r.h[r.ret].children = {}

\* ------------------------------------------------ erase at a branch point
\* node n is in both heaps with the same parent and the same children under
\* the same labels
same_links(a, b, n) ==
  /\ n \in DOMAIN a /\ n \in DOMAIN b
  /\ a[n].parent = b[n].parent
  /\ DOMAIN a[n].children = DOMAIN b[n].children
  /\ \A l \in DOMAIN a[n].children : a[n].children[l] = b[n].children[l]

\* the keys stored at a node with two or more children
branch_keys(h) ==
  {k \in stored_keys(h) :
     Cardinality(DOMAIN h[exact_match(h, RootId, k)].children) >= 2}

\* C35: erase(k) of a key k stored at a node M with two or more children
\* changes M's end flag and nothing else: the nodes, the edge labels and the
\* parent links are the same before and after, every other end flag is the
\* same, and M is still a branch point.
C35_EraseAtBranch ==
  \A k \in branch_keys(nodes) :
    LET M == exact_match(nodes, RootId, k)
        after == erase(nodes, k)
    IN  /\ DOMAIN after = DOMAIN nodes
        /\ \A n \in DOMAIN nodes : same_links(nodes, after, n)
        /\ \A n \in DOMAIN nodes \ {M} : after[n].is_end = nodes[n].is_end
        /\ nodes[M].is_end /\ ~after[M].is_end
        /\ Cardinality(DOMAIN after[M].children) >= 2

\* a key stored at a branch point below the root, and erase unmarks it
C35_Witness ==
  \E k \in branch_keys(nodes) :
    LET M == exact_match(nodes, RootId, k)
    IN  /\ M # RootId
        /\ ~erase(nodes, k)[M].is_end
        /\ stored_keys(erase(nodes, k)) = word_set \ {k}

\* ------------------------------------------------- first_key on a walk
\* Node::next_node, the child to the right that it goes on from (Null when
\* there is nothing to the right)
right_node(h, this) ==
  LET ptr == next_node_climb(h, this)
      par == h[ptr].parent
      after == IF par = Null THEN {}
               ELSE {l \in DOMAIN h[par].children :
                       LexLess(find_child(h, par, ptr), l)}
  IN  IF after = {} THEN Null ELSE h[par].children[MinLabel(after)]

\* the call of first_key that ++ makes at ptr, directly or in next_node,
\* does not come to a node that is no end and has no children
first_key_completes(h, ptr) ==
  IF DOMAIN h[ptr].children # {} THEN first_key(h, ptr) # Fault
  ELSE LET rn == right_node(h, ptr)
       IN  (rn # Null /\ ~h[rn].is_end) => first_key(h, rn) # Fault

\* C36: in every state reachable by insert, erase, erase_prefix and clear,
\* begin() and every ++ of a walk from begin() to end() complete without
\* first_key coming down to a node that is no end and has no children:
\* assert(!rt->children.empty()) holds and begin() of an empty map is never
\* dereferenced.
C36_FirstKeyCompletes ==
  /\ begin(nodes) # Fault
  /\ \A i \in 1..Len(forward(nodes)) :
       forward(nodes)[i] \in DOMAIN nodes =>
         first_key_completes(nodes, forward(nodes)[i])

\* ------------------------------------------------- iterators of a walk
\* C37: in a trie built by inserts and erases, every iterator a walk from
\* begin() with ++ reaches before end() refers to an end node, reads a
\* stored key, and find of the key it reads is that same iterator (the same
\* node).
C37_IteratorsAreKeys ==
  \A i \in 1..Len(forward(nodes)) :
    LET it == forward(nodes)[i]
    IN  it \in DOMAIN nodes =>
          /\ nodes[it].is_end
          /\ deref(nodes, it) \in word_set
          /\ exact_match(nodes, RootId, deref(nodes, it)) = it
          /\ find(nodes, deref(nodes, it)) = it

\* a walk that reaches a key at a node with children below the root and a
\* key two edges below the root
C37_Witness ==
  /\ \E i \in 1..Len(forward(nodes)) :
       LET it == forward(nodes)[i]
       IN  /\ it \in DOMAIN nodes \ {RootId}
           /\ DOMAIN nodes[it].children # {}
           /\ find(nodes, deref(nodes, it)) = it
  /\ \E i \in 1..Len(forward(nodes)) :
       LET it == forward(nodes)[i]
       IN  /\ it \in DOMAIN nodes \ {RootId}
           /\ nodes[it].parent # RootId
           /\ find(nodes, deref(nodes, it)) = it

====
